---- MODULE Spec2Model ----
(***************************************************************************)
(* A model of spannify's span emitter (src/src/core.rs, config.rs,         *)
(* level.rs): a Spanner owning a sink behind a Mutex, an AtomicUsize depth  *)
(* and a Config; Span handles created by enter_args and released by Drop.  *)
(*                                                                         *)
(* Text is modelled as sequences of characters.  Non-ASCII characters are   *)
(* written as names: "corner_down" is U+250C, "corner_up" is U+2514,        *)
(* "broken_bar" is U+00A6, "dash3" is U+2506, "dash4" is U+250A.            *)
(*                                                                         *)
(* The depth counter is a usize.  It is represented by its residue of       *)
(* least magnitude modulo 2^w (w the word width): a small non-negative      *)
(* number is itself, and -k stands for 2^w - k, so that usize::MAX is -1.   *)
(* Wrapping addition and subtraction are then exact as long as the model's  *)
(* bounds keep the magnitude far below 2^(w-1), which they do.              *)
(***************************************************************************)
EXTENDS Integers, Sequences, FiniteSets, TLC

\* ------------------------------------------------------------------ bounds
\* Number of threads sharing the one Spanner.
NThreads == 2
\* Total number of enter_args calls in a run.
MaxSpans == 2
\* Total number of Span::clone calls in a run.
MaxClones == 1
\* Largest depth, skip and tabwidth given to generate_messages when it is
\* checked as a pure function.
MaxRenderDepth == 5
MaxRenderSkip == 3
MaxRenderTab == 3
MaxHelperTarget == 5
MaxReconfigs == 1
MaxBuilds == 2

Threads == 1..NThreads
NoThread == 0

\* ------------------------------------------------------------------ level.rs
\* enum Level, by discriminant; the derived Ord compares discriminants.
Trace == 0
Debug == 1
Info == 2
Warn == 3
Error == 4
Level == {Trace, Debug, Info, Warn, Error}

\* ------------------------------------------------------------------ characters
Blank == " "
Newline == "nl"
EnterGlyph == "corner_down"
ExitGlyph == "corner_up"

\* const DEPTHMAP in default_depthmap
DEPTHMAP == <<"|", "broken_bar", "dash3", "dash4">>

\* A faulty variant of default_depthmap: the cycle leaves out the last glyph.
CycleOfThree(d) == DEPTHMAP[(d % 3) + 1]

default_depthmap(d) == DEPTHMAP[(d % Len(DEPTHMAP)) + 1]

\* The custom depthmap of the crate documentation (lib.rs).
doc_depthmap(d) == IF d % 2 = 0 THEN "|" ELSE "^"

\* Config.depthmap is a function value; the model names the two it uses.
DepthMaps == {"default", "doc"}
ApplyDepthMap(dm, i) == IF dm = "default" THEN default_depthmap(i) ELSE doc_depthmap(i)

\* Span names (caller-supplied text): "foo" of test_level and a one
\* character name.
Names == {<<"f", "o", "o">>, <<"x">>}

\* ------------------------------------------------------------------ config.rs
\* A faulty variant of Config::default: the zero of every field.
ZeroConfig == [tabwidth |-> 0, skip |-> 0, depthmap |-> "default", level |-> Trace]

\* impl Default for Config
DefaultConfig == [tabwidth |-> 2, skip |-> 2, depthmap |-> "default", level |-> Info]

\* A faulty variant of with_skip: the value also lands in tabwidth.
SkipAndTab(cfg, skip) == [cfg EXCEPT !.skip = skip, !.tabwidth = skip]

with_skip(cfg, skip) == [cfg EXCEPT !.skip = skip]
with_level(cfg, level) == [cfg EXCEPT !.level = level]
with_depthmap(cfg, dm) == [cfg EXCEPT !.depthmap = dm]

\* ------------------------------------------------------------------ core.rs
Blanks(n) == [i \in 1..n |-> Blank]

\* usize::saturating_sub
saturating_sub(a, b) == IF a >= b THEN a - b ELSE 0

\* A faulty variant of fetch_add(1): the increment is lost.
LostInc(d) == d

\* AtomicUsize::fetch_add(1) / fetch_sub(1): wrapping, on the residue.
WrappingInc(d) == d + 1
WrappingDec(d) == d - 1

\* The counter holds a value above isize::MAX (it has wrapped below zero).
IsWrapped(d) == d < 0

\* Two faulty variants of is_displayed: one that draws at every column when
\* skip = 0, one that tests column i + 1 instead of i.
SkipZeroShows(i, skip) == IF skip = 0 THEN TRUE ELSE i % skip = 0
OffByOneShows(i, skip) == IF skip = 0 THEN FALSE ELSE (i + 1) % skip = 0

\* let is_displayed = match cfg.skip { 0 => false, _ => i % cfg.skip == 0 };
is_displayed(i, skip) == IF skip = 0 THEN FALSE ELSE i % skip = 0

\* The fold of generate_messages over (0..depth).enumerate(): one step per
\* column i, pushing the bar or a blank and then tabwidth.saturating_sub(1)
\* blanks.
RECURSIVE SpacesFold(_, _, _, _)
SpacesFold(i, depth, cfg, acc) ==
    IF i >= depth THEN acc
    ELSE SpacesFold(i + 1, depth, cfg,
            acc \o << IF is_displayed(i, cfg.skip)
                      THEN ApplyDepthMap(cfg.depthmap, i)
                      ELSE Blank >>
                \o Blanks(saturating_sub(cfg.tabwidth, 1)))

\* A faulty variant of generate_messages: both lines are indented by the
\* depth after the increment.
GenerateDeeper(name, depth, cfg) ==
    LET spaces == SpacesFold(0, depth + 1, cfg, << >>)
        shown == is_displayed(depth + 1, cfg.skip)
    IN  [enter |-> spaces \o << IF shown THEN EnterGlyph ELSE Blank >> \o name \o << Newline >>,
         drop |-> spaces \o << IF shown THEN ExitGlyph ELSE Blank >> \o name \o << Newline >>]

\* A faulty variant of generate_messages: the drop message is indented by the
\* depth after the increment, the enter message by the depth before it.
GenerateDropDeeper(name, depth, cfg) ==
    LET spaces == SpacesFold(0, depth, cfg, << >>)
        shown == is_displayed(depth, cfg.skip)
        deeper == SpacesFold(0, depth + 1, cfg, << >>)
    IN  [enter |-> spaces \o << IF shown THEN EnterGlyph ELSE Blank >> \o name \o << Newline >>,
         drop |-> deeper \o << IF shown THEN ExitGlyph ELSE Blank >> \o name \o << Newline >>]

\* A faulty variant of generate_messages: the drop message carries the glyph
\* of the enter message.
GenerateSameGlyph(name, depth, cfg) ==
    LET spaces == SpacesFold(0, depth, cfg, << >>)
        shown == is_displayed(depth, cfg.skip)
        line == spaces \o << IF shown THEN EnterGlyph ELSE Blank >> \o name \o << Newline >>
    IN  [enter |-> line, drop |-> line]

\* Span::generate_messages: (enter_message, drop_message).
generate_messages(name, depth, cfg) ==
    LET spaces == SpacesFold(0, depth, cfg, << >>)
        shown == is_displayed(depth, cfg.skip)
    IN  [enter |-> spaces \o << IF shown THEN EnterGlyph ELSE Blank >> \o name \o << Newline >>,
         drop |-> spaces \o << IF shown THEN ExitGlyph ELSE Blank >> \o name \o << Newline >>]

\* How the call of generate_messages ends.  String::with_capacity(depth *
\* cfg.tabwidth) is evaluated first: for a wrapped depth and tabwidth >= 1
\* the product overflows (a panic with overflow checks) or, wrapping, still
\* exceeds isize::MAX (a "capacity overflow" panic).  With tabwidth = 0 the
\* capacity is 0 and the fold runs for about 2^w columns, which exhausts
\* memory: the allocation failure aborts the process.
GenerateOutcome(depth, cfg) ==
    IF ~IsWrapped(depth) THEN "ok"
    ELSE IF cfg.tabwidth >= 1 THEN "panic" ELSE "abort"

\* A faulty variant of the level test of enter_args: no filtering.
AlwaysMet(cfgLevel, level) == TRUE

\* enter_args: if parent.config.level <= level { ... }
LevelMet(cfgLevel, level) == cfgLevel <= level

\* drop: if self.parent.config.level < self.level { return; }
DropSkips(cfgLevel, level) == cfgLevel < level


\* ------------------------------------------------------------------ state
VARIABLES
    config,      \* Spanner.config
    depth,       \* Spanner.depth (AtomicUsize), as a residue
    writer,      \* the content of the sink behind Spanner.writer
    lock,        \* the thread holding the Mutex of Spanner.writer, or NoThread
    spans,       \* the live Span values: handle -> [origin, drop_message, level]
    pc,          \* each thread's position inside enter_args or drop
    calls,       \* history: one record per enter_args call, in call order
    handles,     \* history: number of Span values created so far (calls and clones)
    clones,      \* history: number of Span::clone calls so far
    nested,      \* history: all calls so far were made by thread 1, releasing
                 \* the most recently created live handle first, with no clone
    crashed,     \* the process was aborted (allocation failure)
    render,      \* input and output of generate_messages as a pure function
    poisoned,    \* the Mutex of Spanner.writer is poisoned
    reconfigs,   \* history: the with_config calls so far
    built,       \* the Config value under construction by the builder methods
    setup        \* what the run was set up with: the kind of sink T, the
                 \* constructor used and the sink content it was given, the
                 \* target_depth of the recursive helper, and the entry point
                 \* its begins go through

vars == <<config, depth, writer, lock, spans, pc, calls, handles, clones, nested, crashed,
          render, poisoned, reconfigs, setup, built>>

Idle == [at |-> "idle", id |-> 0, msg |-> << >>, drop |-> << >>, level |-> Trace]

NoRender == [done |-> FALSE, name |-> << >>, depth |-> 0, cfg |-> DefaultConfig,
             enter |-> << >>, drop |-> << >>]

\* Configurations a Spanner is given through with_config in the model: every
\* minimum level and the tabwidths 0, 1 and 2 (the field is public), with the
\* default skip and depthmap.
Configs ==
    { [DefaultConfig EXCEPT !.tabwidth = t, !.level = l] : t \in {0, 1, 2}, l \in Level }

\* No builder method has been called.
NoBuild == [recv |-> DefaultConfig, op |-> "none", arg |-> 0, result |-> DefaultConfig, steps |-> 0]

\* The sink of the tests: a Vec<u8>, whose write appends the whole buffer.
VecSetup == [sink |-> "vec", ctor |-> "from_writer", given |-> << >>, target |-> 0,
             form |-> "enter_args"]

\* Spanner::from_writer (depth 0, empty sink, unlocked Mutex) followed by
\* the optional with_config.
Init ==
    /\ setup = VecSetup
    /\ poisoned = FALSE
    /\ reconfigs = << >>
    /\ config \in Configs
    /\ depth = 0
    /\ writer = << >>
    /\ lock = NoThread
    /\ spans = << >>
    /\ pc = [t \in Threads |-> Idle]
    /\ calls = << >>
    /\ handles = 0
    /\ clones = 0
    /\ nested = TRUE
    /\ crashed = FALSE
    /\ render = NoRender
    /\ built = NoBuild

Live == DOMAIN spans

\* No thread is inside enter_args or drop.
Quiescent == \A t \in Threads : pc[t].at = "idle"

\* The most recently created live handle.
Newest == CHOOSE h \in Live : \A g \in Live : g <= h

\* ------------------------------------------------------------------ enter_args
\* Span::enter_args up to the point where it needs the sink: the level
\* test, the fetch_add and generate_messages.  A suppressed call returns its
\* handle at once.
enter_args(t, level, name) ==
    /\ ~crashed
    /\ pc[t].at = "idle"
    /\ nested' = (nested /\ t = 1)
    /\ UNCHANGED <<config, writer, lock, clones, render, poisoned, reconfigs, setup, built>>
    /\ LET id == Len(calls) + 1
           call == [level |-> level, name |-> name, prev_depth |-> depth,
                    incs |-> 0, decs |-> 0, enters |-> 0, exits |-> 0,
                    bytes |-> 0, writes |-> 0, drops |-> 0,
                    enter |-> << >>, drop |-> << >>, state |-> "entering",
                    sent_enter |-> << >>, sent_exit |-> << >>, read |-> 0,
                    enter_io |-> "none", exit_io |-> "none",
                    enter_at |-> 0, exit_at |-> 0]
       IN  IF LevelMet(config.level, level)
           THEN /\ depth' = WrappingInc(depth)
                /\ UNCHANGED <<spans, handles>>
                /\ IF GenerateOutcome(depth, config) = "ok"
                   THEN LET m == generate_messages(name, depth, config)
                        IN  /\ calls' = Append(calls, [call EXCEPT !.incs = 1,
                                                !.enter = m.enter, !.drop = m.drop])
                            /\ pc' = [pc EXCEPT ![t] = [at |-> "enter_lock", id |-> id,
                                                msg |-> m.enter, drop |-> m.drop,
                                                level |-> level]]
                            /\ UNCHANGED crashed
                   ELSE /\ calls' = Append(calls, [call EXCEPT !.incs = 1,
                                        !.state = IF GenerateOutcome(depth, config) = "panic"
                                                  THEN "panicked" ELSE "aborted"])
                        /\ crashed' = (GenerateOutcome(depth, config) = "abort")
                        /\ UNCHANGED pc
           ELSE /\ calls' = Append(calls, [call EXCEPT !.state = "returned"])
                /\ spans' = spans @@ ((handles + 1) :> [origin |-> id, drop_message |-> << >>,
                                                       level |-> level])
                /\ handles' = handles + 1
                /\ UNCHANGED <<depth, pc, crashed>>

\* What one call of writer.write(buf) can do, by the kind of sink.  A Vec<u8>
\* appends the whole buffer.  A sink doing I/O (File, Stdout, any T: Write)
\* may also accept only a leading part of the buffer and return its length
\* (the model lets it accept one character), return an error having written
\* nothing, or panic.
WriteOutcomes(kind, buf) ==
    IF kind = "vec" THEN {"all"}
    ELSE {"all", "err", "panic"} \cup (IF Len(buf) >= 2 THEN {"short"} ELSE {})

\* The part of buf the sink has appended.
Accepted(buf, outcome) ==
    IF outcome = "all" THEN buf
    ELSE IF outcome = "short" THEN SubSeq(buf, 1, 1)
    ELSE << >>

\* A faulty variant of the end of the if-let block: the guard is kept.
GuardKept(holder) == holder

\* The MutexGuard goes out of scope at the end of the if-let block: the
\* Mutex is unlocked.
GuardDropped(holder) == NoThread

\* if let Ok(mut writer) = parent.writer.lock(): waits for the Mutex; on a
\* poisoned Mutex the result is Err, the write is skipped and the handle is
\* returned.
enter_lock(t) ==
    /\ ~crashed
    /\ pc[t].at = "enter_lock"
    /\ lock = NoThread
    /\ IF poisoned
       THEN /\ calls' = [calls EXCEPT ![pc[t].id].state = "returned",
                                      ![pc[t].id].enter_io = "poisoned"]
            /\ spans' = spans @@ ((handles + 1) :> [origin |-> pc[t].id,
                                    drop_message |-> pc[t].drop, level |-> pc[t].level])
            /\ handles' = handles + 1
            /\ pc' = [pc EXCEPT ![t] = Idle]
            /\ UNCHANGED lock
       ELSE /\ lock' = t
            /\ pc' = [pc EXCEPT ![t].at = "enter_write"]
            /\ UNCHANGED <<spans, calls, handles>>
    /\ UNCHANGED <<config, depth, writer, clones, nested, crashed, render,
                   poisoned, reconfigs, setup, built>>

\* let _ = writer.write(enter_message.as_ref()); the guard is dropped at the
\* end of the block and Self { parent, drop_message, level } is returned.  A
\* panic of the sink unwinds through enter_args with the guard held, which
\* poisons the Mutex; no Span is returned.
enter_write(t) ==
    /\ ~crashed
    /\ pc[t].at = "enter_write"
    /\ lock = t
    /\ lock' = GuardDropped(t)
    /\ pc' = [pc EXCEPT ![t] = Idle]
    /\ UNCHANGED <<config, depth, clones, nested, crashed, render, reconfigs, setup, built>>
    /\ \E o \in WriteOutcomes(setup.sink, pc[t].msg) :
        LET sent == Accepted(pc[t].msg, o)
        IN  /\ writer' = writer \o sent
            /\ poisoned' = (o = "panic")
            /\ IF o = "panic"
               THEN /\ calls' = [calls EXCEPT ![pc[t].id].writes = @ + 1,
                                              ![pc[t].id].enter_io = o,
                                              ![pc[t].id].state = "panicked"]
                    /\ UNCHANGED <<spans, handles>>
               ELSE /\ calls' = [calls EXCEPT
                                    ![pc[t].id].enters = @ + (IF sent = pc[t].msg THEN 1 ELSE 0),
                                    ![pc[t].id].bytes = @ + Len(sent),
                                    ![pc[t].id].writes = @ + 1,
                                    ![pc[t].id].sent_enter = sent,
                                    ![pc[t].id].enter_io = o,
                                    ![pc[t].id].enter_at = Len(writer),
                                    ![pc[t].id].state = "returned"]
                    /\ spans' = spans @@ ((handles + 1) :> [origin |-> pc[t].id,
                                            drop_message |-> pc[t].drop, level |-> pc[t].level])
                    /\ handles' = handles + 1

\* ------------------------------------------------------------------ Clone
\* #[derive(Clone)] on Span: a second Span with the same parent,
\* drop_message and level.
clone(t, h) ==
    /\ ~crashed
    /\ pc[t].at = "idle"
    /\ h \in Live
    /\ clones < MaxClones
    /\ clones' = clones + 1
    /\ spans' = spans @@ ((handles + 1) :> spans[h])
    /\ handles' = handles + 1
    /\ nested' = FALSE
    /\ UNCHANGED <<config, depth, writer, lock, pc, calls, crashed, render,
                   poisoned, reconfigs, setup, built>>

\* ------------------------------------------------------------------ Drop
Without(f, h) == [g \in DOMAIN f \ {h} |-> f[g]]

\* Drop::drop up to the point where it needs the sink: the level test and
\* the fetch_sub.  The Span value is gone once drop has been called.
drop(t, h) ==
    /\ ~crashed
    /\ pc[t].at = "idle"
    /\ h \in Live
    /\ spans' = Without(spans, h)
    /\ nested' = (nested /\ t = 1 /\ h = Newest)
    /\ UNCHANGED <<config, writer, lock, handles, clones, crashed, render,
                   poisoned, reconfigs, setup, built>>
    /\ IF DropSkips(config.level, spans[h].level)
       THEN /\ calls' = [calls EXCEPT ![spans[h].origin].drops = @ + 1]
            /\ UNCHANGED <<depth, pc>>
       ELSE /\ depth' = WrappingDec(depth)
            /\ calls' = [calls EXCEPT ![spans[h].origin].decs = @ + 1,
                                      ![spans[h].origin].read = depth]
            /\ pc' = [pc EXCEPT ![t] = [at |-> "drop_lock", id |-> spans[h].origin,
                                        msg |-> spans[h].drop_message, drop |-> << >>,
                                        level |-> spans[h].level]]

\* if let Ok(mut writer) = self.parent.writer.lock(): on a poisoned Mutex
\* the write is skipped and drop returns.
drop_lock(t) ==
    /\ ~crashed
    /\ pc[t].at = "drop_lock"
    /\ lock = NoThread
    /\ IF poisoned
       THEN /\ calls' = [calls EXCEPT ![pc[t].id].drops = @ + 1,
                                      ![pc[t].id].exit_io = "poisoned"]
            /\ pc' = [pc EXCEPT ![t] = Idle]
            /\ UNCHANGED lock
       ELSE /\ lock' = t
            /\ pc' = [pc EXCEPT ![t].at = "drop_write"]
            /\ UNCHANGED calls
    /\ UNCHANGED <<config, depth, writer, spans, handles, clones, nested, crashed, render,
                   poisoned, reconfigs, setup, built>>

\* let _ = writer.write(self.drop_message.as_ref()); guard dropped, return.
\* A panic of the sink unwinds through drop and poisons the Mutex.
drop_write(t) ==
    /\ ~crashed
    /\ pc[t].at = "drop_write"
    /\ lock = t
    /\ lock' = GuardDropped(t)
    /\ pc' = [pc EXCEPT ![t] = Idle]
    /\ UNCHANGED <<config, depth, spans, handles, clones, nested, crashed, render,
                   reconfigs, setup, built>>
    /\ \E o \in WriteOutcomes(setup.sink, pc[t].msg) :
        LET sent == Accepted(pc[t].msg, o)
        IN  /\ writer' = writer \o sent
            /\ poisoned' = (o = "panic")
            /\ IF o = "panic"
               THEN calls' = [calls EXCEPT ![pc[t].id].writes = @ + 1,
                                           ![pc[t].id].exit_io = o]
               ELSE calls' = [calls EXCEPT
                                ![pc[t].id].exits = @ + (IF sent = pc[t].msg /\ sent # << >>
                                                         THEN 1 ELSE 0),
                                ![pc[t].id].bytes = @ + Len(sent),
                                ![pc[t].id].writes = @ + 1,
                                ![pc[t].id].sent_exit = sent,
                                ![pc[t].id].exit_io = o,
                                ![pc[t].id].exit_at = Len(writer),
                                ![pc[t].id].drops = @ + 1]

Next ==
    \/ \E t \in Threads, level \in Level, name \in Names :
          Len(calls) < MaxSpans /\ enter_args(t, level, name)
    \/ \E t \in Threads : enter_lock(t)
    \/ \E t \in Threads : enter_write(t)
    \/ \E t \in Threads, h \in Live : clone(t, h)
    \/ \E t \in Threads, h \in Live : drop(t, h)
    \/ \E t \in Threads : drop_lock(t)
    \/ \E t \in Threads : drop_write(t)

Spec == Init /\ [][Next]_vars

\* Fair scheduling: a thread that is inside enter_args or drop keeps running,
\* and a thread that waits for the Mutex gets it once it stays free.  What the
\* program calls next (a begin, a clone, a release) is its own choice.
Fairness ==
    \A t \in Threads :
        /\ WF_vars(enter_lock(t))
        /\ WF_vars(enter_write(t))
        /\ WF_vars(drop_lock(t))
        /\ WF_vars(drop_write(t))

SpecFair == Spec /\ Fairness


\* ------------------------------------------------------------------ rendering
\* generate_messages as a pure function: the inputs are drawn in RenderInit
\* and render_step applies it.
RenderConfigs ==
    { [tabwidth |-> t, skip |-> s, depthmap |-> dm, level |-> Info] :
        t \in 0..MaxRenderTab, s \in 0..MaxRenderSkip, dm \in DepthMaps }

RenderInit ==
    /\ setup = VecSetup
    /\ poisoned = FALSE
    /\ reconfigs = << >>
    /\ config = DefaultConfig
    /\ depth = 0
    /\ writer = << >>
    /\ lock = NoThread
    /\ spans = << >>
    /\ pc = [t \in Threads |-> Idle]
    /\ calls = << >>
    /\ handles = 0
    /\ clones = 0
    /\ nested = TRUE
    /\ crashed = FALSE
    /\ built = NoBuild
    /\ \E name \in Names, d \in 0..MaxRenderDepth, cfg \in RenderConfigs :
          render = [NoRender EXCEPT !.name = name, !.depth = d, !.cfg = cfg]

render_step ==
    /\ ~render.done
    /\ LET m == generate_messages(render.name, render.depth, render.cfg)
       IN  render' = [render EXCEPT !.done = TRUE, !.enter = m.enter, !.drop = m.drop]
    /\ UNCHANGED <<config, depth, writer, lock, spans, pc, calls, handles, clones, nested, crashed,
                   poisoned, reconfigs, setup, built>>

RenderNext == render_step

SpecRender == RenderInit /\ [][RenderNext]_vars

\* ------------------------------------------- construction and reconfiguration
\* A Spanner value: its sink content, its depth and its configuration.

\* Spanner::from_writer
from_writer(w) == [writer |-> w, depth |-> 0, config |-> DefaultConfig]

\* impl Default for VecSpanner, and VecSpanner::new
VecSpanner_default == [writer |-> << >>, depth |-> 0, config |-> DefaultConfig]
VecSpanner_new == VecSpanner_default

\* VecSpanner::from_vec
from_vec(vec) == [writer |-> vec, depth |-> 0, config |-> DefaultConfig]

\* FileSpanner::new: the sink is the file as it was given.
FileSpanner_new(file) == [writer |-> file, depth |-> 0, config |-> DefaultConfig]

\* impl Default for StdoutSpanner, and StdoutSpanner::new: the sink is the
\* standard output, of which the model keeps what this Spanner writes.
StdoutSpanner_default == [writer |-> << >>, depth |-> 0, config |-> DefaultConfig]
StdoutSpanner_new == StdoutSpanner_default

\* A faulty variant of with_config: a Spanner built anew around the sink.
RebuiltWithConfig(self, cfg) == [writer |-> self.writer, depth |-> 0, config |-> cfg]

\* Spanner::with_config: Self { config: cfg, ..self }
with_config(self, cfg) == [self EXCEPT !.config = cfg]

\* What a sink (a Vec or a File) holds when it is handed to a constructor.
Givens == {<< >>, <<"x", Newline>>}

\* The constructor calls: the constructor, the kind of its sink and the
\* content of the sink it is given.
LifeSetups ==
    {[VecSetup EXCEPT !.ctor = "from_writer", !.sink = k, !.given = g] :
        k \in {"vec", "io"}, g \in Givens}
    \cup {[VecSetup EXCEPT !.ctor = "VecSpanner::new"]}
    \cup {[VecSetup EXCEPT !.ctor = "VecSpanner::from_vec", !.given = g] : g \in Givens}
    \cup {[VecSetup EXCEPT !.ctor = "FileSpanner::new", !.sink = "io", !.given = g] : g \in Givens}
    \cup {[VecSetup EXCEPT !.ctor = "StdoutSpanner::new", !.sink = "io"]}

Construct(s) ==
    IF s.ctor = "from_writer" THEN from_writer(s.given)
    ELSE IF s.ctor = "VecSpanner::new" THEN VecSpanner_new
    ELSE IF s.ctor = "VecSpanner::from_vec" THEN from_vec(s.given)
    ELSE IF s.ctor = "FileSpanner::new" THEN FileSpanner_new(s.given)
    ELSE StdoutSpanner_new

\* The state right after one of the constructors.
LifeInit ==
    /\ setup \in LifeSetups
    /\ poisoned = FALSE
    /\ reconfigs = << >>
    /\ config = Construct(setup).config
    /\ depth = Construct(setup).depth
    /\ writer = Construct(setup).writer
    /\ lock = NoThread
    /\ spans = << >>
    /\ pc = [t \in Threads |-> Idle]
    /\ calls = << >>
    /\ handles = 0
    /\ clones = 0
    /\ nested = TRUE
    /\ crashed = FALSE
    /\ render = NoRender
    /\ built = NoBuild

\* The configurations handed to with_config.
ReConfigs == {with_skip(DefaultConfig, 3), with_level(DefaultConfig, Warn),
              with_depthmap(DefaultConfig, "doc")}

\* spanner.with_config(cfg): the Spanner is taken by value, so no Span
\* borrows it and no thread is inside one of its methods.
call_with_config(cfg) ==
    /\ ~crashed
    /\ Quiescent
    /\ Live = {}
    /\ LET self == with_config([writer |-> writer, depth |-> depth, config |-> config], cfg)
       IN  /\ writer' = self.writer
           /\ depth' = self.depth
           /\ config' = self.config
    /\ reconfigs' = Append(reconfigs, [cfg |-> cfg, calls |-> Len(calls)])
    /\ UNCHANGED <<lock, spans, pc, calls, handles, clones, nested, crashed, render,
                   poisoned, setup, built>>

\* One owner thread constructs the Spanner, traces with it and reconfigures it.
LifeNext ==
    \/ \E level \in Level, name \in Names :
          Len(calls) < MaxSpans /\ enter_args(1, level, name)
    \/ enter_lock(1)
    \/ enter_write(1)
    \/ \E h \in Live : drop(1, h)
    \/ drop_lock(1)
    \/ drop_write(1)
    \/ \E cfg \in ReConfigs : Len(reconfigs) < MaxReconfigs /\ call_with_config(cfg)

SpecLife == LifeInit /\ [][LifeNext]_vars

\* ------------------------------------------------------- the Config builders
\* Config is Copy: a builder takes its receiver by value and returns a new
\* value.  A Spanner holds its own copy of the configuration it was given.

BuildConfigs ==
    { [tabwidth |-> t, skip |-> s, depthmap |-> dm, level |-> l] :
        t \in {0, 2}, s \in {0, 2}, dm \in DepthMaps, l \in {Trace, Info, Error} }

\* let c = ...; let spanner = Spanner::from_writer(Vec::new()).with_config(c);
BuildInit ==
    /\ setup = VecSetup
    /\ poisoned = FALSE
    /\ reconfigs = << >>
    /\ \E c \in BuildConfigs :
          /\ built = [NoBuild EXCEPT !.recv = c, !.result = c]
          /\ config = with_config(from_writer(<< >>), c).config
    /\ depth = 0
    /\ writer = << >>
    /\ lock = NoThread
    /\ spans = << >>
    /\ pc = [t \in Threads |-> Idle]
    /\ calls = << >>
    /\ handles = 0
    /\ clones = 0
    /\ nested = TRUE
    /\ crashed = FALSE
    /\ render = NoRender

\* c.with_skip(skip) on the value built so far
call_with_skip(skip) ==
    /\ built.steps < MaxBuilds
    /\ built' = [recv |-> built.result, op |-> "with_skip", arg |-> skip,
                 result |-> with_skip(built.result, skip), steps |-> built.steps + 1]
    /\ UNCHANGED <<config, depth, writer, lock, spans, pc, calls, handles, clones, nested,
                   crashed, render, poisoned, reconfigs, setup>>

\* c.with_level(level)
call_with_level(level) ==
    /\ built.steps < MaxBuilds
    /\ built' = [recv |-> built.result, op |-> "with_level", arg |-> level,
                 result |-> with_level(built.result, level), steps |-> built.steps + 1]
    /\ UNCHANGED <<config, depth, writer, lock, spans, pc, calls, handles, clones, nested,
                   crashed, render, poisoned, reconfigs, setup>>

\* c.with_depthmap(f)
call_with_depthmap(dm) ==
    /\ built.steps < MaxBuilds
    /\ built' = [recv |-> built.result, op |-> "with_depthmap", arg |-> dm,
                 result |-> with_depthmap(built.result, dm), steps |-> built.steps + 1]
    /\ UNCHANGED <<config, depth, writer, lock, spans, pc, calls, handles, clones, nested,
                   crashed, render, poisoned, reconfigs, setup>>

BuildNext ==
    \/ \E skip \in 0..MaxRenderSkip : call_with_skip(skip)
    \/ \E level \in Level : call_with_level(level)
    \/ \E dm \in DepthMaps : call_with_depthmap(dm)

SpecBuild == BuildInit /\ [][BuildNext]_vars

\* ------------------------------------------------------ a sink that does I/O
\* Spanner<T> for any T: Write (FileSpanner, StdoutSpanner): as Spec, with a
\* sink whose write may be short, fail or panic.
IoSetup == [VecSetup EXCEPT !.sink = "io"]

\* The default configuration with every minimum level.
IoConfigs == {with_level(DefaultConfig, l) : l \in Level}

IoInit ==
    /\ setup = IoSetup
    /\ poisoned = FALSE
    /\ reconfigs = << >>
    /\ config \in IoConfigs
    /\ depth = 0
    /\ writer = << >>
    /\ lock = NoThread
    /\ spans = << >>
    /\ pc = [t \in Threads |-> Idle]
    /\ calls = << >>
    /\ handles = 0
    /\ clones = 0
    /\ nested = TRUE
    /\ crashed = FALSE
    /\ render = NoRender
    /\ built = NoBuild

SpecIo == IoInit /\ [][Next]_vars

\* ------------------------------------------------------- the recursive helper
\* tests::Helper::helper(0, target_depth) on one thread: every call enters
\* the span "Span(current_depth)", recurses while current_depth <
\* target_depth, and releases its _span when it returns.

Digit == <<"0", "1", "2", "3", "4", "5", "6", "7", "8", "9">>

\* format!("{}", k) of a usize
RECURSIVE Decimal(_)
Decimal(k) == IF k < 10 THEN << Digit[k + 1] >>
              ELSE Decimal(k \div 10) \o << Digit[(k % 10) + 1] >>

\* format!("Span({})", current_depth)
SpanName(k) == <<"S", "p", "a", "n", "(">> \o Decimal(k) \o <<")">>

\* Config::new() of it_works and Config::new().with_skip(3) of test_config.
HelperConfigs == {DefaultConfig, with_skip(DefaultConfig, 3)}

\* VecSpanner::new(), with_config(cfg), and the target_depth argument.
HelperInit ==
    /\ setup \in {[VecSetup EXCEPT !.target = n] : n \in 0..MaxHelperTarget}
    /\ poisoned = FALSE
    /\ reconfigs = << >>
    /\ config \in HelperConfigs
    /\ depth = 0
    /\ writer = << >>
    /\ lock = NoThread
    /\ spans = << >>
    /\ pc = [t \in Threads |-> Idle]
    /\ calls = << >>
    /\ handles = 0
    /\ clones = 0
    /\ nested = TRUE
    /\ crashed = FALSE
    /\ render = NoRender
    /\ built = NoBuild

\* The frame of helper(current_depth, target_depth) starts: the recursion is
\* still descending (no frame has returned) and the frame above, if any, has
\* its _span.  enter_span is enter_with_level(Level::Info, name).
helper_enter ==
    /\ Len(calls) <= setup.target
    /\ handles = Len(calls)
    /\ Cardinality(Live) = handles
    /\ enter_args(1, Info, SpanName(Len(calls)))

\* The innermost frame returns (current_depth >= target_depth, or its
\* recursive call has returned): its _span, the newest live one, is dropped.
helper_return ==
    /\ Len(calls) = setup.target + 1
    /\ handles = Len(calls)
    /\ Live # {}
    /\ drop(1, Newest)

HelperNext ==
    \/ helper_enter
    \/ enter_lock(1)
    \/ enter_write(1)
    \/ helper_return
    \/ drop_lock(1)
    \/ drop_write(1)

SpecHelper == HelperInit /\ [][HelperNext]_vars

\* ------------------------------------------------------------ entry points
\* The public ways into Span::enter_args and what each hands down to it: a
\* level and the text its fmt::Arguments display.

\* An argument of format_args!: a usize or a &str.
U(n) == [kind |-> "usize", n |-> n, s |-> << >>]
Str(s) == [kind |-> "str", n |-> 0, s |-> s]

\* Display of a format argument: a usize in decimal, a &str as it is.
Display(a) == IF a.kind = "usize" THEN Decimal(a.n) ELSE a.s

\* What format_args!(fmt, args...) displays: every placeholder of the format
\* string, in order, replaced by the display of the next argument.
RECURSIVE Format(_, _)
Format(fmt, args) ==
    IF fmt = << >> THEN << >>
    ELSE IF Len(fmt) >= 2 /\ fmt[1] = "{" /\ fmt[2] = "}"
    THEN Display(Head(args)) \o Format(SubSeq(fmt, 3, Len(fmt)), Tail(args))
    ELSE << fmt[1] >> \o Format(Tail(fmt), args)

\* A faulty variant of Span::enter: the name is used as the format string.
EnterNameAsFormat(level, name) == [level |-> level, args |-> Format(name, << Str(<< >>) >>)]

\* Span::enter: Self::enter_args(parent, level, format_args!("{name}"))
Span_enter(level, name) == [level |-> level, args |-> Format(<<"{", "}">>, << Str(name) >>)]

\* Spanner::enter_with_level
enter_with_level(level, name) == Span_enter(level, name)

\* Spanner::enter_span
enter_span(name) == enter_with_level(Info, name)

\* Spanner::enter_args: Span::enter_args(self, level, args)
Spanner_enter_args(level, fmt, args) == [level |-> level, args |-> Format(fmt, args)]

\* spf!(spanner, level => "literal")
spf_level_lit(level, lit) == enter_with_level(level, lit)

\* spf!(spanner => "literal")
spf_lit(lit) == enter_span(lit)

\* spf!(spanner, level, "format", args...)
spf_level_fmt(level, fmt, args) == Spanner_enter_args(level, fmt, args)

\* spf!(spanner, "format", args...)
spf_fmt(fmt, args) == Spanner_enter_args(Info, fmt, args)

Forms == {"enter_span", "enter_with_level", "enter_args",
          "spf_level_lit", "spf_lit", "spf_level_fmt", "spf_fmt"}

\* The texts handed to an entry point: a literal without placeholder, and
\* "S({})" with the argument 7 where the entry point takes format arguments.
EntryInputs == { [fmt |-> <<"x">>, args |-> << >>],
                 [fmt |-> <<"S", "(", "{", "}", ")">>, args |-> << U(7) >>] }

\* What the entry point hands to Span::enter_args.  The forms that take a
\* name pass the text as the name; the others format it.
Resolve(form, level, x) ==
    IF form = "enter_span" THEN enter_span(x.fmt)
    ELSE IF form = "enter_with_level" THEN enter_with_level(level, x.fmt)
    ELSE IF form = "enter_args" THEN Spanner_enter_args(level, x.fmt, x.args)
    ELSE IF form = "spf_level_lit" THEN spf_level_lit(level, x.fmt)
    ELSE IF form = "spf_lit" THEN spf_lit(x.fmt)
    ELSE IF form = "spf_level_fmt" THEN spf_level_fmt(level, x.fmt, x.args)
    ELSE spf_fmt(x.fmt, x.args)

\* A begin through an entry point.
begin_via(t, form, level, x) ==
    enter_args(t, Resolve(form, level, x).level, Resolve(form, level, x).args)

\* A program whose begins all go through one entry point.
EntryInit ==
    /\ setup \in {[VecSetup EXCEPT !.form = f] : f \in Forms}
    /\ poisoned = FALSE
    /\ reconfigs = << >>
    /\ config \in IoConfigs
    /\ depth = 0
    /\ writer = << >>
    /\ lock = NoThread
    /\ spans = << >>
    /\ pc = [t \in Threads |-> Idle]
    /\ calls = << >>
    /\ handles = 0
    /\ clones = 0
    /\ nested = TRUE
    /\ crashed = FALSE
    /\ render = NoRender
    /\ built = NoBuild

EntryNext ==
    \/ \E t \in Threads, level \in Level, x \in EntryInputs :
          Len(calls) < MaxSpans /\ begin_via(t, setup.form, level, x)
    \/ \E t \in Threads : enter_lock(t)
    \/ \E t \in Threads : enter_write(t)
    \/ \E t \in Threads, h \in Live : clone(t, h)
    \/ \E t \in Threads, h \in Live : drop(t, h)
    \/ \E t \in Threads : drop_lock(t)
    \/ \E t \in Threads : drop_write(t)

SpecEntry == EntryInit /\ [][EntryNext]_vars


\* ------------------------------------------------------------------ properties
Called == 1..Len(calls)

RECURSIVE TotalEnters(_)
TotalEnters(n) == IF n = 0 THEN 0 ELSE calls[n].enters + TotalEnters(n - 1)

RECURSIVE TotalExits(_)
TotalExits(n) == IF n = 0 THEN 0 ELSE calls[n].exits + TotalExits(n - 1)

\* The handles that count as open spans: live and not filtered out.
OpenSpans == { h \in Live : spans[h].level >= config.level }

\* C1 (Balance): after a properly nested sequence of begin calls on a fresh
\* Emitter, once every returned handle has been released, the sink holds as
\* many exit lines as enter lines and depth is back at 0.
C1_Balance ==
    (nested /\ Quiescent /\ Live = {} /\ ~crashed)
        => (TotalExits(Len(calls)) = TotalEnters(Len(calls)) /\ depth = 0)

\* C2 (Depth counts open spans): whenever no begin or release is
\* mid-execution, depth equals the number of live handles whose level is at
\* least the configured minimum (stated for runs without clones and without
\* a failed begin).
C2_DepthCountsOpenSpans ==
    (Quiescent /\ clones = 0 /\ \A id \in Called : calls[id].state = "returned")
        => depth = Cardinality(OpenSpans)

\* C3 (Filtering leaves depth alone): a span begun below the configured
\* minimum performs no increment in begin and no decrement in release.
C3_FilteredLeavesDepth ==
    \A id \in Called :
        calls[id].level < config.level => (calls[id].incs = 0 /\ calls[id].decs = 0)

\* C4 (Filtering produces no output): beginning and releasing a span below
\* the configured minimum appends no byte to the sink; a sink that has only
\* seen such spans is empty.
C4_FilteredNoOutput ==
    /\ \A id \in Called : calls[id].level < config.level => calls[id].bytes = 0
    /\ (\A id \in Called : calls[id].level < config.level) => writer = << >>

\* A fresh Emitter with minimum Info has begun and fully released one Debug
\* span, and its sink is empty.
C4_Witness ==
    /\ config.level = Info
    /\ Len(calls) = 1
    /\ calls[1].level = Debug
    /\ calls[1].state = "returned"
    /\ calls[1].drops = 1
    /\ Live = {}
    /\ Quiescent
    /\ writer = << >>

\* C5 (Entry and exit decisions agree for emitted spans): a handle whose
\* level is at least the configured minimum decrements depth once and writes
\* its exit line when released; release is a no-op only for suppressed spans
\* (stated for runs without clones, on completed releases).
C5_EmittedReleaseActs ==
    clones = 0 =>
        \A id \in Called :
            (calls[id].level >= config.level /\ calls[id].drops = 1)
                => (calls[id].decs = 1 /\ calls[id].exits = 1)

\* C6 (Emission decision at begin): a finished begin with level L under
\* minimum M has incremented depth once and appended one enter line if and
\* only if L >= M; with L < M it has changed neither depth nor sink.
C6_EmissionAtBegin ==
    \A id \in Called :
        calls[id].state # "entering" =>
            /\ (calls[id].level >= config.level)
                   <=> (calls[id].incs = 1 /\ calls[id].enters = 1)
            /\ calls[id].level < config.level
                   => (calls[id].incs = 0 /\ calls[id].enters = 0)

\* C8 (One decrement per increment): the increment of one begin is matched
\* by at most one decrement and at most one exit line, also when the handle
\* is cloned and both copies are released.
C8_OneDecrementPerIncrement ==
    \A id \in Called :
        calls[id].incs = 1 => (calls[id].decs <= 1 /\ calls[id].exits <= 1)

\* The line the formatting algorithm prescribes, position by position:
\* column i of the indentation occupies positions i*t+1 .. (i+1)*t, its first
\* position holding depthmap(i) when i mod s = 0; the glyph slot follows, then
\* the name and the newline.
RefLine(name, d, s, t, dm, glyph) ==
    [ p \in 1..(d * t + 1 + Len(name) + 1) |->
        IF p <= d * t
        THEN IF (p - 1) % t = 0 /\ ((p - 1) \div t) % s = 0
             THEN ApplyDepthMap(dm, (p - 1) \div t)
             ELSE Blank
        ELSE IF p = d * t + 1
        THEN IF d % s = 0 THEN glyph ELSE Blank
        ELSE IF p <= d * t + 1 + Len(name)
        THEN name[p - (d * t + 1)]
        ELSE Newline ]

\* C9 (Line rendering matches the reference algorithm): for skip > 0 and
\* tabwidth >= 1 the rendered enter and exit lines are the prescribed lines.
C9_RenderMatchesReference ==
    (render.done /\ render.cfg.skip > 0 /\ render.cfg.tabwidth >= 1) =>
        /\ render.enter = RefLine(render.name, render.depth, render.cfg.skip,
                                  render.cfg.tabwidth, render.cfg.depthmap, EnterGlyph)
        /\ render.drop = RefLine(render.name, render.depth, render.cfg.skip,
                                 render.cfg.tabwidth, render.cfg.depthmap, ExitGlyph)

\* A line at depth 4 with skip 2 and tabwidth 2 has been rendered: bars at
\* columns 0 and 2, blanks at 1 and 3, and the corner in the glyph slot.
C9_Witness ==
    /\ render.done
    /\ render.depth = 4
    /\ render.cfg.skip = 2
    /\ render.cfg.tabwidth = 2
    /\ render.cfg.depthmap = "default"
    /\ render.name = <<"x">>
    /\ render.enter = <<"|", " ", " ", " ", "dash3", " ", " ", " ", "corner_down", "x", "nl">>
    /\ render.drop = <<"|", " ", " ", " ", "dash3", " ", " ", " ", "corner_up", "x", "nl">>

\* Everything of a rendered line before the name is blank, and the line ends
\* with the name and the newline.
BlankBeforeName(line, name) ==
    LET n == Len(line) - Len(name) - 1
    IN  /\ n >= 1
        /\ \A p \in 1..n : line[p] = Blank
        /\ SubSeq(line, n + 1, Len(line)) = name \o << Newline >>

\* C10 (skip = 0 disables every glyph): with skip = 0 every indentation
\* column and the glyph slot of the enter and exit lines are blanks, whatever
\* the depth, and rendering completes.
C10_SkipZeroAllBlank ==
    (render.done /\ render.cfg.skip = 0) =>
        /\ BlankBeforeName(render.enter, render.name)
        /\ BlankBeforeName(render.drop, render.name)
        /\ render.cfg.tabwidth >= 1 =>
              Len(render.enter) = render.depth * render.cfg.tabwidth + 1 + Len(render.name) + 1

\* A line at depth 4, where skip = 2 would draw bars and the corner, has been
\* rendered with skip = 0.
C10_Witness ==
    /\ render.done
    /\ render.cfg.skip = 0
    /\ render.depth = 4
    /\ render.cfg.tabwidth = 2
    /\ render.name = <<"x">>
    /\ render.enter = <<" ", " ", " ", " ", " ", " ", " ", " ", " ", "x", "nl">>
    /\ render.drop = render.enter

\* ------------------------------------------- Indentation of written lines

\* The characters the depthmaps draw.
Bars == {DEPTHMAP[i] : i \in 1..4} \cup {"^"}

\* line is n indentation characters (bars and blanks), one glyph slot, the
\* name and the newline.
IndentedBy(line, n, name, glyph) ==
    /\ Len(line) = n + 1 + Len(name) + 1
    /\ \A p \in 1..n : line[p] \in Bars \cup {Blank}
    /\ line[n + 1] \in {glyph, Blank}
    /\ SubSeq(line, n + 2, Len(line)) = name \o << Newline >>

\* C11 (Enter lines are indented by the pre-increment depth): for tabwidth
\* t >= 1 the enter line written by an emitted begin has d*t indentation
\* characters before the glyph slot, d being the value its fetch_add read;
\* the first span of a fresh Spanner has none.
C11_EnterIndentIsPrevDepth ==
    config.tabwidth >= 1 =>
        \A id \in Called :
            calls[id].enters >= 1 =>
                /\ IndentedBy(calls[id].sent_enter, calls[id].prev_depth * config.tabwidth,
                              calls[id].name, EnterGlyph)
                /\ (id = 1 => calls[id].prev_depth = 0)

\* With tabwidth 2 a begin that read depth 1 has written its enter line, two
\* indentation characters before the glyph slot, after the unindented line
\* of the first span.
C11_Witness ==
    /\ config.tabwidth = 2
    /\ Len(calls) = 2
    /\ calls[1].enters = 1 /\ calls[1].prev_depth = 0
    /\ calls[1].sent_enter = << EnterGlyph >> \o calls[1].name \o << Newline >>
    /\ calls[2].enters = 1 /\ calls[2].prev_depth = 1
    /\ calls[2].sent_enter = << "|", Blank, Blank >> \o calls[2].name \o << Newline >>

\* C12 as stated (Depth-indentation correspondence for exits): for tabwidth
\* t >= 1 the indentation of every exit line is t times the depth that the
\* fetch_sub of its release read (the pre-decrement depth).
C12_ExitIndentIsPreDecrement ==
    config.tabwidth >= 1 =>
        \A id \in Called :
            calls[id].exits >= 1 =>
                IndentedBy(calls[id].sent_exit, calls[id].read * config.tabwidth,
                           calls[id].name, ExitGlyph)

\* C12 amended: for tabwidth t >= 1 the indentation of every exit line is t
\* times the depth that the fetch_add of the span's begin read (the
\* pre-increment depth at entry), the indentation of its enter line.
C12_ExitIndentIsEntryDepth ==
    config.tabwidth >= 1 =>
        \A id \in Called :
            calls[id].exits >= 1 =>
                IndentedBy(calls[id].sent_exit, calls[id].prev_depth * config.tabwidth,
                           calls[id].name, ExitGlyph)

\* With tabwidth 2 the second of two nested spans has been released: its
\* fetch_sub read depth 2 and its exit line has two indentation characters.
C12_Witness ==
    /\ config.tabwidth = 2
    /\ Len(calls) = 2
    /\ calls[2].exits = 1
    /\ calls[2].prev_depth = 1
    /\ calls[2].read = 2
    /\ calls[2].sent_exit = << "|", Blank, Blank >> \o calls[2].name \o << Newline >>

\* The line with the corner of the enter line turned into that of the exit line.
SwapGlyph(line) == [p \in 1..Len(line) |-> IF line[p] = EnterGlyph THEN ExitGlyph ELSE line[p]]

\* C13 (Exit line is pre-rendered from the entry depth): the exit line
\* written at release is the span's enter line with the corner replaced, the
\* line rendered from the depth and configuration at begin, whatever the
\* depth at release, the order of releases and the releasing thread.
C13_ExitIsPrerendered ==
    \A id \in Called :
        calls[id].exits >= 1 =>
            /\ calls[id].sent_exit = calls[id].drop
            /\ calls[id].drop =
                  generate_messages(calls[id].name, calls[id].prev_depth, config).drop
            /\ calls[id].sent_exit = SwapGlyph(calls[id].enter)
            /\ calls[id].enters >= 1 => calls[id].sent_exit = SwapGlyph(calls[id].sent_enter)
            /\ \A p \in 1..Len(calls[id].sent_exit) : calls[id].sent_exit[p] # EnterGlyph

\* Out of LIFO order: the outer of two nested spans has written its exit line
\* while the handle of the inner one is still live; its release read depth 2
\* and the line is the unindented one of depth 0.
C13_Witness ==
    /\ Len(calls) = 2
    /\ calls[1].prev_depth = 0 /\ calls[2].prev_depth = 1
    /\ calls[1].exits = 1 /\ calls[1].read = 2
    /\ calls[2].decs = 0
    /\ \E h \in Live : spans[h].origin = 2
    /\ calls[1].sent_enter = << EnterGlyph >> \o calls[1].name \o << Newline >>
    /\ calls[1].sent_exit = << ExitGlyph >> \o calls[1].name \o << Newline >>

\* --------------------------------------------------- Atomicity of the counter

RECURSIVE TotalIncs(_)
TotalIncs(n) == IF n = 0 THEN 0 ELSE calls[n].incs + TotalIncs(n - 1)

RECURSIVE TotalDecs(_)
TotalDecs(n) == IF n = 0 THEN 0 ELSE calls[n].decs + TotalDecs(n - 1)

\* The begins that performed the fetch_add.
Emitted == {id \in Called : calls[id].incs = 1}

\* C16 (Atomic depth assignment): no increment or decrement is ever lost, so
\* depth is the number of increments minus the number of decrements; while
\* no release has decremented, k emitted begins have read the distinct
\* values 0..k-1 and depth is k.
C16_AtomicDepthAssignment ==
    /\ depth = TotalIncs(Len(calls)) - TotalDecs(Len(calls))
    /\ TotalDecs(Len(calls)) = 0 =>
          /\ \A i, j \in Emitted : i # j => calls[i].prev_depth # calls[j].prev_depth
          /\ {calls[id].prev_depth : id \in Emitted} = 0..(Cardinality(Emitted) - 1)
          /\ depth = Cardinality(Emitted)

\* Two threads are inside begin at once, both past the fetch_add and neither
\* past its write: they read 0 and 1, and depth is 2.
C16_Witness ==
    /\ pc[1].at \in {"enter_lock", "enter_write"}
    /\ pc[2].at \in {"enter_lock", "enter_write"}
    /\ {calls[pc[1].id].prev_depth, calls[pc[2].id].prev_depth} = {0, 1}
    /\ depth = 2

\* ------------------------------------------------ Shape of the recursive trace

\* helper(0, target) has returned.
HelperDone ==
    /\ Len(calls) = setup.target + 1
    /\ Live = {}
    /\ Quiescent

RECURSIVE EnterLines(_, _, _)
EnterLines(k, n, cfg) ==
    IF k > n THEN << >>
    ELSE RefLine(SpanName(k), k, cfg.skip, cfg.tabwidth, cfg.depthmap, EnterGlyph)
            \o EnterLines(k + 1, n, cfg)

RECURSIVE ExitLines(_, _)
ExitLines(k, cfg) ==
    IF k < 0 THEN << >>
    ELSE RefLine(SpanName(k), k, cfg.skip, cfg.tabwidth, cfg.depthmap, ExitGlyph)
            \o ExitLines(k - 1, cfg)

\* The prescribed trace of Span(0)..Span(n): enter lines of depths 0..n, then
\* exit lines of depths n..0.
Tree(n, cfg) == EnterLines(0, n, cfg) \o ExitLines(n, cfg)

IsPrefix(a, b) == Len(a) <= Len(b) /\ a = SubSeq(b, 1, Len(a))

NumLines(text) == Cardinality({p \in 1..Len(text) : text[p] = Newline})

\* C14 (Recursive trace shape): with the default configuration the sink
\* always holds a prefix of the prescribed trace of Span(0)..Span(n) and, when
\* the recursion has returned, the whole of it: 2(n+1) lines, enter lines of
\* depths 0..n then exit lines of depths n..0, corners at even depths and a
\* blank at odd depths, and the bars "|", "dash3", "|" at columns 0, 2, 4.
C14_RecursiveTraceShape ==
    config = DefaultConfig =>
        /\ IsPrefix(writer, Tree(setup.target, config))
        /\ HelperDone =>
              /\ writer = Tree(setup.target, config)
              /\ NumLines(writer) = 2 * (setup.target + 1)
              /\ \A k \in 0..setup.target :
                    /\ calls[k + 1].sent_enter[k * 2 + 1] = (IF k % 2 = 0 THEN EnterGlyph ELSE Blank)
                    /\ calls[k + 1].sent_exit[k * 2 + 1] = (IF k % 2 = 0 THEN ExitGlyph ELSE Blank)
                    /\ \A c \in 0..(k - 1) :
                          calls[k + 1].sent_enter[c * 2 + 1] =
                              (IF c = 0 \/ c = 4 THEN "|" ELSE IF c = 2 THEN "dash3" ELSE Blank)

\* The 12-line tree of it_works, character by character.
TreeOfTest ==
    << "corner_down" >> \o SpanName(0) \o << "nl" >>
    \o << "|", " ", " " >> \o SpanName(1) \o << "nl" >>
    \o << "|", " ", " ", " ", "corner_down" >> \o SpanName(2) \o << "nl" >>
    \o << "|", " ", " ", " ", "dash3", " ", " " >> \o SpanName(3) \o << "nl" >>
    \o << "|", " ", " ", " ", "dash3", " ", " ", " ", "corner_down" >> \o SpanName(4) \o << "nl" >>
    \o << "|", " ", " ", " ", "dash3", " ", " ", " ", "|", " ", " " >> \o SpanName(5) \o << "nl" >>
    \o << "|", " ", " ", " ", "dash3", " ", " ", " ", "|", " ", " " >> \o SpanName(5) \o << "nl" >>
    \o << "|", " ", " ", " ", "dash3", " ", " ", " ", "corner_up" >> \o SpanName(4) \o << "nl" >>
    \o << "|", " ", " ", " ", "dash3", " ", " " >> \o SpanName(3) \o << "nl" >>
    \o << "|", " ", " ", " ", "corner_up" >> \o SpanName(2) \o << "nl" >>
    \o << "|", " ", " " >> \o SpanName(1) \o << "nl" >>
    \o << "corner_up" >> \o SpanName(0) \o << "nl" >>

\* helper(0, 5) has returned on a default Spanner and the sink holds the tree
\* of the test.
C14_Witness ==
    /\ config = DefaultConfig
    /\ setup.target = 5
    /\ HelperDone
    /\ SpanName(5) = <<"S", "p", "a", "n", "(", "5", ")">>
    /\ writer = TreeOfTest

\* The bars of the written lines of Span(0)..Span(n) stand at columns 0 and 3
\* only, and the bar at column 3 is the given one.
BarsOfSkipThree(bar3) ==
    \A k \in 0..setup.target :
        \A c \in 0..(k - 1) :
            /\ calls[k + 1].sent_enter[c * 2 + 1] =
                  (IF c = 0 THEN "|" ELSE IF c = 3 THEN bar3 ELSE Blank)
            /\ calls[k + 1].sent_exit[c * 2 + 1] =
                  (IF c = 0 THEN "|" ELSE IF c = 3 THEN bar3 ELSE Blank)

\* C15 as stated (Scenario B): with skip = 3 the recursion Span(0)..Span(5)
\* draws bars only at columns 0 and 3, and the bar at column 3 is "dash3".
C15_ScenarioBDash3 ==
    (config = with_skip(DefaultConfig, 3) /\ setup.target = 5 /\ HelperDone) =>
        BarsOfSkipThree("dash3")

\* C15 amended: with skip = 3 the recursion Span(0)..Span(5) draws bars only
\* at columns 0 and 3, and the bar at column 3 is "dash4", the fourth glyph
\* of the default depthmap; the sink holds the tree of test_config.
C15_ScenarioBDash4 ==
    (config = with_skip(DefaultConfig, 3) /\ setup.target = 5 /\ HelperDone) =>
        /\ BarsOfSkipThree("dash4")
        /\ writer = Tree(5, config)
        /\ \A k \in 0..5 :
              calls[k + 1].sent_enter[k * 2 + 1] = (IF k % 3 = 0 THEN EnterGlyph ELSE Blank)

\* helper(0, 5) has returned with skip = 3; the lines of Span(5) are those of
\* test_config.
C15_Witness ==
    /\ config = with_skip(DefaultConfig, 3)
    /\ setup.target = 5
    /\ HelperDone
    /\ calls[6].sent_enter = << "|", " ", " ", " ", " ", " ", "dash4", " ", " ", " ", " " >>
                                \o SpanName(5) \o << "nl" >>
    /\ calls[6].sent_exit = calls[6].sent_enter
    /\ calls[4].sent_enter = << "|", " ", " ", " ", " ", " ", "corner_down" >>
                                \o SpanName(3) \o << "nl" >>

\* ------------------------------------------------------------ Sink writes

\* The threads that hold the guard of Spanner.writer and are about to call
\* writer.write.
Writing == {t \in Threads : pc[t].at \in {"enter_write", "drop_write"}}

\* At most one thread is inside a sink write, and it is the holder of the
\* Mutex.
OneWriter ==
    /\ Cardinality(Writing) <= 1
    /\ \A t \in Threads : (t \in Writing) <=> (lock = t)

\* The positions of the line ends of a text.
LineEnds(text) == {p \in 1..Len(text) : text[p] = Newline}

\* The non-empty lines rendered so far.
RenderedLines ==
    ({calls[id].enter : id \in Called} \cup {calls[id].drop : id \in Called}) \ {<< >>}

\* The text is a concatenation of whole rendered lines.
WholeLines(text) ==
    /\ (text = << >> \/ text[Len(text)] = Newline)
    /\ \A p \in LineEnds(text) :
          LET before == {q \in LineEnds(text) : q < p}
              start == IF before = {} THEN 1
                       ELSE (CHOOSE q \in before : \A q2 \in before : q2 <= q) + 1
          IN  SubSeq(text, start, p) \in RenderedLines

\* C17 (Serialized sink writes): at most one thread is inside a sink write
\* at a time, and the sink content is always a concatenation of whole enter
\* and exit lines.
C17_SerializedWholeLines ==
    /\ OneWriter
    /\ WholeLines(writer)

\* The guard of Spanner.writer is held for a single write only: while it is
\* held the sink does not change, and the step that releases it is the one
\* write of its holder.
LockSpansOneWrite ==
    [][(lock # NoThread) =>
          \/ lock' = lock /\ writer' = writer
          \/ /\ lock' = NoThread
             /\ calls'[pc[lock].id].writes = calls[pc[lock].id].writes + 1]_vars

\* ------------------------------------------------------------ Sink failure

\* What the claim calls a failed write: an error, a short write, or a poisoned
\* Mutex.
Failed == {"err", "short", "poisoned"}

\* Some begin or release of the run met a failed write.
SomeWriteFailed ==
    \E id \in Called : calls[id].enter_io \in Failed \/ calls[id].exit_io \in Failed

\* No write of a begin panicked (a begin that panics returns no handle to
\* release).
NoBeginSinkPanic == \A id \in Called : calls[id].enter_io # "panic"

\* C18 (Sink failure is absorbed): a begin whose write fails returns its
\* handle after incrementing depth, a release whose write fails has
\* decremented depth, and after a run with failed writes, once every handle
\* is released, depth is back at its initial value 0.
C18_SinkFailureAbsorbed ==
    /\ \A id \in Called :
          /\ calls[id].enter_io \in Failed => (calls[id].state = "returned" /\ calls[id].incs = 1)
          /\ calls[id].exit_io \in Failed => calls[id].decs >= 1
    /\ (SomeWriteFailed /\ NoBeginSinkPanic /\ Quiescent /\ Live = {}) => depth = 0

\* The same for runs in which every span has the minimum level and no handle
\* is cloned.
SinkFailureAbsorbedAtMinimum ==
    ((\A id \in Called : calls[id].level = config.level) /\ clones = 0) => C18_SinkFailureAbsorbed

\* ------------------------------------------- Construction, reconfiguration

\* C19 (Reconfigure is a pure replacement): a with_config(cfg) step leaves
\* the sink content and depth as they were, writes nothing, and makes cfg the
\* configuration.
C19_ReconfigureReplacesConfig ==
    [][(reconfigs' # reconfigs) =>
          /\ config' = reconfigs'[Len(reconfigs')].cfg
          /\ writer' = writer
          /\ depth' = depth
          /\ poisoned' = poisoned
          /\ calls' = calls]_vars

\* with_config has just acted on a Spanner that has traced: its sink holds
\* text, its depth is not 0, and the configuration is the one handed in, not
\* the one of construction.
C19_Witness ==
    /\ reconfigs # << >>
    /\ reconfigs[Len(reconfigs)].calls = Len(calls)
    /\ Live = {} /\ Quiescent
    /\ Len(calls) >= 1
    /\ depth # 0
    /\ writer # setup.given
    /\ config = reconfigs[Len(reconfigs)].cfg
    /\ config # DefaultConfig

\* Nothing has been called on the Spanner since its constructor returned.
JustConstructed == calls = << >> /\ reconfigs = << >>

\* C20 (Initial state): every constructor yields depth 0, the default
\* configuration (tabwidth 2, skip 2, level Info, a depthmap cycling through
\* "|", "broken_bar", "dash3", "dash4" by depth mod 4) and a sink holding
\* what it was given.
C20_InitialState ==
    JustConstructed =>
        /\ depth = 0
        /\ config.tabwidth = 2
        /\ config.skip = 2
        /\ config.level = Info
        /\ \A d \in 0..11 :
              ApplyDepthMap(config.depthmap, d) = <<"|", "broken_bar", "dash3", "dash4">>[(d % 4) + 1]
        /\ writer = setup.given
        /\ lock = NoThread /\ ~poisoned

\* VecSpanner::from_vec has returned a Spanner around a Vec that holds text.
C20_Witness ==
    /\ JustConstructed
    /\ setup.ctor = "VecSpanner::from_vec"
    /\ setup.given = <<"x", Newline>>
    /\ writer = <<"x", Newline>>
    /\ depth = 0
    /\ config = [tabwidth |-> 2, skip |-> 2, depthmap |-> "default", level |-> Info]

\* ------------------------------------------------------- Config builders

\* The result of the last builder call, field by field.
OneFieldChanged ==
    /\ built.op = "with_skip" =>
          /\ built.result.skip = built.arg
          /\ built.result.tabwidth = built.recv.tabwidth
          /\ built.result.depthmap = built.recv.depthmap
          /\ built.result.level = built.recv.level
    /\ built.op = "with_level" =>
          /\ built.result.level = built.arg
          /\ built.result.tabwidth = built.recv.tabwidth
          /\ built.result.skip = built.recv.skip
          /\ built.result.depthmap = built.recv.depthmap
    /\ built.op = "with_depthmap" =>
          /\ built.result.depthmap = built.arg
          /\ built.result.tabwidth = built.recv.tabwidth
          /\ built.result.skip = built.recv.skip
          /\ built.result.level = built.recv.level

\* C21 (Configuration builders change one field): the result of with_skip,
\* with_level and with_depthmap equals the receiver in every field but the
\* named one, which holds the given value; a builder step leaves the value it
\* was called on and the configuration of the Spanner as they were.
C21_BuildersChangeOneField ==
    /\ []OneFieldChanged
    /\ [][(built' # built) => (built'.recv = built.result /\ config' = config)]_vars

\* with_skip(3) and then with_depthmap of the documentation's map have been
\* called on a configuration with skip 2, tabwidth 0 and level Error, which
\* the Spanner still holds.
C21_Witness ==
    /\ built.steps = 2
    /\ built.op = "with_depthmap"
    /\ built.recv = [tabwidth |-> 0, skip |-> 3, depthmap |-> "default", level |-> Error]
    /\ built.result = [tabwidth |-> 0, skip |-> 3, depthmap |-> "doc", level |-> Error]
    /\ config = [tabwidth |-> 0, skip |-> 2, depthmap |-> "default", level |-> Error]

\* ------------------------------------------------------------ Entry points

\* The text the claim prescribes for an input handed to a formatting entry
\* point.
Formatted(x) == IF x.args = << >> THEN <<"x">> ELSE <<"S", "(", "7", ")">>

\* C22 (Entry points are equivalent): a begin through enter_span(name) is
\* the step of enter_with_level(Level::Info, name), a begin through
\* enter_with_level(level, name) the step of enter_args with the name as its
\* text, and a begin through a form of spf! the step of the call it expands
\* to: the same change of depth, the same message to write and the same
\* handle to release, in every state and configuration.
C22_EntryPointsEquivalent ==
    [][\A t \in Threads, level \in Level, x \in EntryInputs :
          begin_via(t, setup.form, level, x) =>
              /\ setup.form = "enter_span" => enter_args(t, Info, x.fmt)
              /\ setup.form = "enter_with_level" => enter_args(t, level, x.fmt)
              /\ setup.form = "enter_args" => enter_args(t, level, Formatted(x))
              /\ setup.form = "spf_level_lit" => enter_args(t, level, x.fmt)
              /\ setup.form = "spf_lit" => enter_args(t, Info, x.fmt)
              /\ setup.form = "spf_level_fmt" => enter_args(t, level, Formatted(x))
              /\ setup.form = "spf_fmt" => enter_args(t, Info, Formatted(x))]_vars

\* spf!(spanner => "S({})") has begun a span on a Spanner whose minimum is
\* Info: the literal is the name, braces kept, and the enter line is written.
C22_Witness ==
    /\ setup.form = "spf_lit"
    /\ config.level = Info
    /\ Len(calls) >= 1
    /\ calls[1].level = Info
    /\ calls[1].name = <<"S", "(", "{", "}", ")">>
    /\ calls[1].enters = 1
    /\ calls[1].sent_enter = << EnterGlyph, "S", "(", "{", "}", ")", Newline >>

\* ------------------------------------------------------- Crashes, underflow

\* C23 (Tracing never crashes the instrumented program): no begin panics or
\* aborts the process, and the depth every begin hands to generate_messages
\* is one for which String::with_capacity(depth * tabwidth) is computed
\* within the machine word.
C23_NeverCrashes ==
    /\ ~crashed
    /\ \A id \in Called :
          /\ calls[id].state \notin {"panicked", "aborted"}
          /\ calls[id].incs = 1 => GenerateOutcome(calls[id].prev_depth, config) = "ok"

\* C24 (Depth never underflows): depth has never wrapped below 0, and no
\* release has applied its fetch_sub to a depth of 0.
C24_DepthNeverUnderflows ==
    /\ ~IsWrapped(depth)
    /\ \A id \in Called : calls[id].decs >= 1 => calls[id].read >= 1

\* C25 (Each level consumes exactly tabwidth columns for every tabwidth):
\* for every tabwidth t >= 0 and depth d both rendered lines have d*t
\* characters before the glyph slot.
C25_TabwidthColumnsPerLevel ==
    render.done =>
        /\ Len(render.enter) = render.depth * render.cfg.tabwidth + 1 + Len(render.name) + 1
        /\ Len(render.drop) = render.depth * render.cfg.tabwidth + 1 + Len(render.name) + 1

\* The same for tabwidth >= 1.
TabwidthColumnsFromOne == render.cfg.tabwidth >= 1 => C25_TabwidthColumnsPerLevel

\* C26 (Suppressed release touches nothing): the release of a handle whose
\* begin was suppressed performs no atomic operation on depth, does not take
\* the Mutex of the sink and does not call write, not even with an empty
\* message.
C26_SuppressedReleaseTouchesNothing ==
    \A id \in Called :
        (calls[id].incs = 0 /\ calls[id].state = "returned") =>
            /\ calls[id].decs = 0
            /\ calls[id].writes = 0
            /\ \A t \in Threads :
                  pc[t].at \in {"drop_lock", "drop_write"} => pc[t].id # id

\* ------------------------------------------------------- Order of the lines

\* The spans of which both lines are in the sink.
BothWritten == {id \in Called : calls[id].enters >= 1 /\ calls[id].exits >= 1}

\* The enter line of every such span stands before its exit line.
EnterBeforeExit ==
    \A id \in BothWritten : calls[id].enter_at < calls[id].exit_at

\* Every exit line pairs with the nearest preceding unmatched enter line,
\* which has its name and indentation: the span has an enter line, equal to
\* the exit line but for the corner, and every enter line written between
\* the two has its own exit line between them.
WellNested ==
    \A i \in Called :
        calls[i].exits >= 1 =>
            /\ calls[i].enters >= 1
            /\ calls[i].sent_exit = SwapGlyph(calls[i].sent_enter)
            /\ \A j \in Called :
                  (/\ calls[j].enters >= 1
                   /\ calls[i].enter_at < calls[j].enter_at
                   /\ calls[j].enter_at < calls[i].exit_at)
                      => (calls[j].exits >= 1 /\ calls[j].exit_at < calls[i].exit_at)

\* C27 (Enter precedes exit and lines nest): the enter line of a span stands
\* in the sink before its exit line under any interleaving, and when one
\* thread releases its handles in LIFO order the sink is well-nested.
C27_EnterPrecedesExitAndNests ==
    /\ EnterBeforeExit
    /\ (nested /\ clones = 0) => WellNested

\* The same for runs in which every span has the minimum level.
NestsAtMinimum ==
    (\A id \in Called : calls[id].level = config.level) => C27_EnterPrecedesExitAndNests

\* ---------------------------------------------------------------- Deadlock

\* A thread holds the Mutex exactly while it is at its write: it does not
\* hold it when it asks for it, nor after it has returned; and a begin or a
\* release calls write, under the Mutex, at most once.
LockDiscipline ==
    /\ \A t \in Threads : (lock = t) <=> (pc[t].at \in {"enter_write", "drop_write"})
    /\ \A id \in Called : calls[id].writes <= calls[id].incs + calls[id].decs

\* C28 (No deadlock): the lock discipline holds and, with fair scheduling,
\* every begin and release that has started is eventually over (it has
\* returned or unwound, or the process has been aborted).
C28_NoDeadlock ==
    /\ []LockDiscipline
    /\ \A t \in Threads : (pc[t].at # "idle") ~> (pc[t].at = "idle" \/ crashed)

\* A thread waits in drop for the Mutex that the other thread holds for the
\* write of its enter line.
C28_Witness ==
    \E t, u \in Threads :
        /\ pc[t].at = "drop_lock"
        /\ pc[u].at = "enter_write"
        /\ lock = u

====
